---------------------------- MODULE Spec2Model ----------------------------
(***************************************************************************)
(* The Sample trait of src/sample.rs and its three implementations        *)
(* (i8/u8, i16/u16, i32/u32), generated by the impl_sample! macro.        *)
(*                                                                         *)
(* Every operation of the trait is a pure function.  The state machine     *)
(* below fixes a width W (the type the trait is instantiated at), and each *)
(* action applies one operation of the trait to arguments drawn from a    *)
(* set of inputs clustered around the boundaries of the integer types.    *)
(*                                                                         *)
(* Numbers.  TLC's integers are 32 bits wide, while the code handles u32   *)
(* and i64 quantities, so a mathematical integer v is held in the          *)
(* normal form [t, m, l] with v = t * 2^32 + m * 2^16 + l and              *)
(* 0 <= m, l < 2^16 (t carries the sign).  Machine integers are these      *)
(* numbers together with a type [signed, bytes]; the `as` casts and the    *)
(* wrapping arithmetic go through the two's-complement byte encoding of    *)
(* the value, as the hardware does.                                        *)
(***************************************************************************)
EXTENDS Integers, Sequences, FiniteSets, TLC

VARIABLES W, op, args, res

vars == <<W, op, args, res>>

---------------------------------------------------------------------------
(* Bounds of the model.                                                    *)

\* Radius of the neighbourhood of inputs taken around every boundary value.
Delta == 2

---------------------------------------------------------------------------
(* Mathematical integers in three limbs.                                   *)

K == 2^16

Norm(t, m, l) ==
    LET m2 == m + (l \div K)
    IN  [t |-> t + (m2 \div K), m |-> m2 % K, l |-> l % K]

Num(n) == Norm(0, 0, n)

NumAdd(x, y) == Norm(x.t + y.t, x.m + y.m, x.l + y.l)

NumSub(x, y) == Norm(x.t - y.t, x.m - y.m, x.l - y.l)

NumLT(x, y) ==
    \/ x.t < y.t
    \/ x.t = y.t /\ x.m < y.m
    \/ x.t = y.t /\ x.m = y.m /\ x.l < y.l

NumLE(x, y) == x = y \/ NumLT(x, y)

Pow2(k) ==
    IF k < 16 THEN Norm(0, 0, 2^k)
    ELSE IF k < 32 THEN Norm(0, 2^(k - 16), 0)
    ELSE Norm(2^(k - 32), 0, 0)

\* x and y are congruent modulo 2^w (w one of 8, 16, 32).
Congruent(x, y, w) ==
    LET d == NumSub(x, y)
    IN  CASE w = 8  -> d.l % 256 = 0
          [] w = 16 -> d.l = 0
          [] w = 32 -> d.l = 0 /\ d.m = 0

---------------------------------------------------------------------------
(* The integer types of the code.                                          *)

\* impl_sample!(i8, u8); impl_sample!(i16, u16); impl_sample!(i32, u32);
Widths == {8, 16, 32}

Signed(w) == [signed |-> TRUE, bytes |-> w \div 8]

Unsigned(w) == [signed |-> FALSE, bytes |-> w \div 8]

U16 == [signed |-> FALSE, bytes |-> 2]

I32 == [signed |-> TRUE, bytes |-> 4]

I64 == [signed |-> TRUE, bytes |-> 8]

\* The little-endian two's-complement bytes of x in a type of n bytes.
Encode(x, n) ==
    [k \in 1..n |->
        CASE k = 1 -> x.l % 256
          [] k = 2 -> x.l \div 256
          [] k = 3 -> x.m % 256
          [] k = 4 -> x.m \div 256
          [] OTHER -> (x.t \div (256^(k - 5))) % 256]

\* The value a byte pattern denotes in a signed or an unsigned type.
Decode(signed, p) ==
    LET n == Len(p)
        d(k) == IF k > n THEN 0
                ELSE IF signed /\ k = n /\ p[n] >= 128 THEN p[k] - 256
                ELSE p[k]
    IN  Norm(d(5) + 256 * d(6) + 65536 * d(7) + 16777216 * d(8),
             d(3) + 256 * d(4),
             d(1) + 256 * d(2))

\* A pattern cut or extended to n bytes: truncation to a narrower type,
\* sign extension from a signed source, zero extension from an unsigned one.
Resize(p, signed, n) ==
    [k \in 1..n |->
        IF k <= Len(p) THEN p[k]
        ELSE IF signed /\ p[Len(p)] >= 128 THEN 255
        ELSE 0]

\* The cast `x as dst` of an x of type src.
As(x, src, dst) ==
    Decode(dst.signed, Resize(Encode(x, src.bytes), src.signed, dst.bytes))

\* std::$signed::MAX, 0x7f..ff
SignedMAX(w) ==
    Decode(TRUE, [k \in 1..(w \div 8) |-> IF k = w \div 8 THEN 127 ELSE 255])

\* std::$signed::MIN, 0x80..00
SignedMIN(w) ==
    Decode(TRUE, [k \in 1..(w \div 8) |-> IF k = w \div 8 THEN 128 ELSE 0])

\* std::$unsigned::MAX, 0xff..ff
UnsignedMAX(w) == Decode(FALSE, [k \in 1..(w \div 8) |-> 255])

RECURSIVE CarryIn(_, _, _)
CarryIn(p, q, k) ==
    IF k = 1 THEN 0 ELSE (p[k - 1] + q[k - 1] + CarryIn(p, q, k - 1)) \div 256

\* Addition of two patterns of the same width, the carry out dropped.
AddBytes(p, q) ==
    [k \in 1..Len(p) |-> (p[k] + q[k] + CarryIn(p, q, k)) % 256]

RECURSIVE BorrowIn(_, _, _)
BorrowIn(p, q, k) ==
    IF k = 1 THEN 0
    ELSE IF p[k - 1] - q[k - 1] - BorrowIn(p, q, k - 1) < 0 THEN 1 ELSE 0

\* Subtraction of two patterns of the same width, the borrow out dropped.
SubBytes(p, q) ==
    [k \in 1..Len(p) |-> (p[k] - q[k] - BorrowIn(p, q, k)) % 256]

\* Option<$signed>
None == [some |-> FALSE]

Some(v) == [some |-> TRUE, val |-> v]

---------------------------------------------------------------------------
(* The operations of impl Sample for $signed, at width w.                  *)

max(w) == SignedMAX(w)

min(w) == SignedMIN(w)

\* max_unsigned returning the bound of the signed type.
max_unsigned_signed(w) == SignedMAX(w)

max_unsigned(w) == UnsignedMAX(w)

zero(w) == Num(0)

one(w) == Num(1)

zero_unsigned(w) == Num(0)

one_unsigned(w) == Num(1)

\* from_unsigned keeping the unsigned reading of the pattern.
from_unsigned_zero_extended(w, unsigned) == As(unsigned, Unsigned(w), Unsigned(w))

from_unsigned(w, unsigned) == As(unsigned, Unsigned(w), Signed(w))

\* from_u16_nofail passing through i16, which sign-extends.
from_u16_nofail_via_i16(w, x) == As(As(x, U16, Signed(16)), Signed(16), Unsigned(w))

from_u16_nofail(w, x) == As(x, U16, Unsigned(w))

\* from_i32_nofail clamping to the bounds of the type instead of truncating.
from_i32_nofail_clamped(w, x) ==
    IF NumLT(SignedMAX(w), x) THEN SignedMAX(w)
    ELSE IF NumLT(x, SignedMIN(w)) THEN SignedMIN(w)
    ELSE x

\* from_i32_nofail passing through the unsigned type.
from_i32_nofail_via_unsigned(w, x) == As(x, I32, Unsigned(w))

\* from_i32_nofail returning its argument at its own width.
from_i32_nofail_untruncated(w, x) == x

from_i32_nofail(w, x) == As(x, I32, Signed(w))

\* from_i32 with the comparisons one off (>= and <=).
from_i32_off_by_one(w, x) ==
    IF \/ NumLE(As(SignedMAX(w), Signed(w), I32), x)
       \/ NumLE(x, As(SignedMIN(w), Signed(w), I32))
    THEN None
    ELSE Some(As(x, I32, Signed(w)))

from_i32(w, x) ==
    IF \/ NumLT(As(SignedMAX(w), Signed(w), I32), x)
       \/ NumLT(x, As(SignedMIN(w), Signed(w), I32))
    THEN None
    ELSE Some(As(x, I32, Signed(w)))

\* from_i64 narrowing its argument to i32 before the range check.
from_i64_narrowed_first(w, x) ==
    LET y == As(x, I64, I32)
    IN  IF \/ NumLT(As(SignedMAX(w), Signed(w), I32), y)
           \/ NumLT(y, As(SignedMIN(w), Signed(w), I32))
        THEN None
        ELSE Some(As(y, I32, Signed(w)))

from_i64(w, x) ==
    IF \/ NumLT(As(SignedMAX(w), Signed(w), I64), x)
       \/ NumLT(x, As(SignedMIN(w), Signed(w), I64))
    THEN None
    ELSE Some(As(x, I64, Signed(w)))

to_i32(w, self) == As(self, Signed(w), I32)

\* to_i64 passing through the unsigned type, which zero-extends.
to_i64_zero_extended(w, self) ==
    As(As(self, Signed(w), Unsigned(w)), Unsigned(w), I64)

to_i64(w, self) == As(self, Signed(w), I64)

\* wrapping_add saturating at the bounds of the type.
wrapping_add_saturating(w, self, other) ==
    LET sum == NumAdd(self, other)
    IN  IF NumLT(SignedMAX(w), sum) THEN SignedMAX(w)
        ELSE IF NumLT(sum, SignedMIN(w)) THEN SignedMIN(w)
        ELSE sum

wrapping_add(w, self, other) ==
    Decode(TRUE, AddBytes(Encode(self, w \div 8), Encode(other, w \div 8)))

wrapping_sub(w, self, other) ==
    Decode(TRUE, SubBytes(Encode(self, w \div 8), Encode(other, w \div 8)))

\* The + of the Unsigned type on operands whose sum fits the type.
add_unsigned(w, a, b) ==
    Decode(FALSE, AddBytes(Encode(a, w \div 8), Encode(b, w \div 8)))

---------------------------------------------------------------------------
(* Inputs: the integers within Delta of a boundary of one of the types.    *)

I32MaxInt == (2^30 - 1) + 2^30

I32MinInt == (-(2^30)) - 2^30

Near(c) == (c - Delta)..(c + Delta)

I32Ints ==
    UNION {Near(c) : c \in {0, 128, -128, 256, 32768, -32768, 65536}}
        \cup {I32MaxInt - d : d \in 0..Delta}
        \cup {I32MinInt + d : d \in 0..Delta}

\* Every i32 argument.
InputsI32 == {Num(n) : n \in I32Ints}

\* Every u16 argument.
InputsU16 == {Num(n) : n \in {i \in I32Ints : 0 <= i /\ i <= 65535}}

\* Every i64 argument: a high word joined to the low word of an i32 input.
HighWords ==
    ((0 - Delta)..Delta)
        \cup {I32MaxInt - d : d \in 0..Delta}
        \cup {I32MinInt + d : d \in 0..Delta}

InputsI64 ==
    {[t |-> h, m |-> x.m, l |-> x.l] : h \in HighWords, x \in InputsI32}

\* The values of the signed type of width w.
Samples(w) ==
    {Num(n) : n \in {i \in I32Ints :
                        /\ (0 - 2^(w - 2)) - 2^(w - 2) <= i
                        /\ i <= (2^(w - 2) - 1) + 2^(w - 2)}}

\* The values of the unsigned type of width w.
Unsigneds(w) ==
    {IF x.t < 0 THEN NumAdd(x, Pow2(w)) ELSE x : x \in Samples(w)}

---------------------------------------------------------------------------
(* The state machine: a width, and the call in progress.  The operations   *)
(* keep no state: a caller invokes one of them, takes the result by value, *)
(* and is then free to make the next call.                                 *)

NoResult == [none |-> TRUE]

Init ==
    /\ W \in Widths
    /\ op = "start"
    /\ args = <<>>
    /\ res = NoResult

Apply(name, a, r) ==
    /\ op = "start"
    /\ op' = name
    /\ args' = a
    /\ res' = r
    /\ UNCHANGED W

Max == Apply("max", <<>>, max(W))

Min == Apply("min", <<>>, min(W))

MaxUnsigned == Apply("max_unsigned", <<>>, max_unsigned(W))

Zero == Apply("zero", <<>>, zero(W))

One == Apply("one", <<>>, one(W))

ZeroUnsigned == Apply("zero_unsigned", <<>>, zero_unsigned(W))

OneUnsigned == Apply("one_unsigned", <<>>, one_unsigned(W))

FromUnsigned ==
    \E u \in Unsigneds(W) : Apply("from_unsigned", <<u>>, from_unsigned(W, u))

FromU16Nofail ==
    \E x \in InputsU16 : Apply("from_u16_nofail", <<x>>, from_u16_nofail(W, x))

FromI32Nofail ==
    \E x \in InputsI32 : Apply("from_i32_nofail", <<x>>, from_i32_nofail(W, x))

FromI32 ==
    \E x \in InputsI32 : Apply("from_i32", <<x>>, from_i32(W, x))

FromI64 ==
    \E x \in InputsI64 : Apply("from_i64", <<x>>, from_i64(W, x))

ToI32 ==
    \E s \in Samples(W) : Apply("to_i32", <<s>>, to_i32(W, s))

ToI64 ==
    \E s \in Samples(W) : Apply("to_i64", <<s>>, to_i64(W, s))

WrappingAdd ==
    \E a \in Samples(W), b \in Samples(W) :
        Apply("wrapping_add", <<a, b>>, wrapping_add(W, a, b))

WrappingSub ==
    \E a \in Samples(W), b \in Samples(W) :
        Apply("wrapping_sub", <<a, b>>, wrapping_sub(W, a, b))

\* The caller has consumed the result.
Return ==
    /\ op # "start"
    /\ op' = "start"
    /\ args' = <<>>
    /\ res' = NoResult
    /\ UNCHANGED W

Next ==
    \/ Max
    \/ Min
    \/ MaxUnsigned
    \/ Zero
    \/ One
    \/ ZeroUnsigned
    \/ OneUnsigned
    \/ FromUnsigned
    \/ FromU16Nofail
    \/ FromI32Nofail
    \/ FromI32
    \/ FromI64
    \/ ToI32
    \/ ToI64
    \/ WrappingAdd
    \/ WrappingSub
    \/ Return

Spec == Init /\ [][Next]_vars

---------------------------------------------------------------------------
(* Properties.                                                             *)

\* min() <= x <= max() at width w.
InRange(w, x) == NumLE(min(w), x) /\ NumLE(x, max(w))

\* A well-formed number.
IsNum(v) ==
    /\ DOMAIN v = {"t", "m", "l"}
    /\ v.t \in Int
    /\ v.m \in 0..(K - 1)
    /\ v.l \in 0..(K - 1)

\* -2^(w-1) <= v <= 2^(w-1) - 1, for w up to 64.
IsSigned(w, v) ==
    /\ IsNum(v)
    /\ IF w = 64 THEN I32MinInt <= v.t /\ v.t <= I32MaxInt
       ELSE /\ NumLE(NumSub(Num(0), Pow2(w - 1)), v)
            /\ NumLT(v, Pow2(w - 1))

\* 0 <= v <= 2^w - 1.
IsUnsigned(w, v) == IsNum(v) /\ NumLE(Num(0), v) /\ NumLT(v, Pow2(w))

\* C1: from_i32(x) is Some(x) when min() <= x <= max() and None otherwise;
\* at width 16, 32768 gives None, 32767 and -32768 give themselves.
C1_FromI32 ==
    op = "from_i32" =>
        LET x == args[1]
        IN  /\ InRange(W, x) => res = Some(x)
            /\ ~InRange(W, x) => res = None
            /\ (W = 16 /\ x = Num(32768)) => res = None
            /\ (W = 16 /\ x = Num(32767)) => res = Some(Num(32767))
            /\ (W = 16 /\ x = Num(-32768)) => res = Some(Num(-32768))

C1_Witness ==
    /\ op = "from_i32"
    /\ W = 16
    /\ args = <<Num(32768)>>
    /\ res = None

\* C2: from_i64(x) is Some(v) with to_i64(v) = x exactly when
\* min() <= x <= max(), and None for every other x; the value returned is
\* never a truncation of x.
C2_FromI64 ==
    op = "from_i64" =>
        LET x == args[1]
        IN  /\ InRange(W, x) => res.some /\ to_i64(W, res.val) = x
            /\ ~InRange(W, x) => res = None
            /\ res.some => res.val = x
            /\ (W = 32 /\ (NumLT(Num(I32MaxInt), x) \/ NumLT(x, Num(I32MinInt))))
                  => res = None

C2_Witness ==
    /\ op = "from_i64"
    /\ W = 32
    /\ args = <<Pow2(31)>>
    /\ res = None

\* C3: from_unsigned is the two's-complement reading of an unsigned value:
\* u below 2^(W-1) keeps its value, u from 2^(W-1) on becomes u - 2^W;
\* it is total on [0, 2^W - 1], lands in [min(), max()], sends distinct
\* values to distinct results and reaches every signed value.
C3_FromUnsigned ==
    op = "from_unsigned" =>
        LET u == args[1]
        IN  /\ IsUnsigned(W, u)
            /\ NumLT(u, Pow2(W - 1)) => to_i64(W, res) = u
            /\ ~NumLT(u, Pow2(W - 1)) => to_i64(W, res) = NumSub(u, Pow2(W))
            /\ InRange(W, res)
            /\ \A v \in Unsigneds(W) : from_unsigned(W, v) = res => v = u
            /\ \A s \in Samples(W) :
                   \E v \in Unsigneds(W) : from_unsigned(W, v) = s

C3_Witness ==
    /\ op = "from_unsigned"
    /\ W = 32
    /\ args = <<NumSub(Pow2(32), Num(1))>>
    /\ res = Num(-1)

\* C4: wrapping_add(a, b) and wrapping_sub(a, b) are the one value of
\* [min(), max()] congruent modulo 2^W to a + b and to a - b, hence the
\* plain sum or difference when that is in range; max() + 1 wraps to min(),
\* min() - 1 wraps to max(), and 127 + 1 is -128 at width 8.
C4_Wrapping ==
    /\ op = "wrapping_add" =>
        LET sum == NumAdd(args[1], args[2])
        IN  /\ InRange(W, res)
            /\ Congruent(res, sum, W)
            /\ \A s \in Samples(W) : Congruent(s, sum, W) => s = res
            /\ InRange(W, sum) => res = sum
            /\ args = <<max(W), one(W)>> => res = min(W)
            /\ (W = 8 /\ args = <<Num(127), Num(1)>>) => res = Num(-128)
    /\ op = "wrapping_sub" =>
        LET diff == NumSub(args[1], args[2])
        IN  /\ InRange(W, res)
            /\ Congruent(res, diff, W)
            /\ \A s \in Samples(W) : Congruent(s, diff, W) => s = res
            /\ InRange(W, diff) => res = diff
            /\ args = <<min(W), one(W)>> => res = max(W)

C4_Witness ==
    /\ op = "wrapping_add"
    /\ W = 8
    /\ args = <<Num(127), Num(1)>>
    /\ res = Num(-128)

\* C5: to_i32(s) and to_i64(s) are the value of s, so from_i32 and from_i64
\* give Some(s) back.
C5_Widening ==
    /\ op = "to_i32" =>
        /\ res = args[1]
        /\ from_i32(W, res) = Some(args[1])
    /\ op = "to_i64" =>
        /\ res = args[1]
        /\ from_i64(W, res) = Some(args[1])

C5_Witness ==
    /\ op = "to_i64"
    /\ W = 8
    /\ args = <<Num(-128)>>
    /\ res = Num(-128)

\* C6: max() is 2^(W-1) - 1, min() is -2^(W-1), max_unsigned() is 2^W - 1,
\* zero() is 0, one() is 1, and zero_unsigned() + one_unsigned() is
\* one_unsigned().
C6_Constants ==
    /\ op = "max" => res = NumSub(Pow2(W - 1), Num(1))
    /\ op = "min" => res = NumSub(Num(0), Pow2(W - 1))
    /\ op = "max_unsigned" => res = NumSub(Pow2(W), Num(1))
    /\ op = "zero" => res = Num(0)
    /\ op = "one" => res = Num(1)
    /\ op = "zero_unsigned" =>
        add_unsigned(W, res, one_unsigned(W)) = one_unsigned(W)
    /\ op = "one_unsigned" =>
        add_unsigned(W, zero_unsigned(W), res) = res

C6_Witness ==
    /\ op = "max_unsigned"
    /\ W = 32
    /\ res = [t |-> 0, m |-> 65535, l |-> 65535]

\* C7: for x with min() <= x <= max(), from_i32_nofail(x) is the sample of
\* value x: Some of it is from_i32(x) and to_i32 of it is x.
C7_FromI32Nofail ==
    (op = "from_i32_nofail" /\ InRange(W, args[1])) =>
        /\ Some(res) = from_i32(W, args[1])
        /\ to_i32(W, res) = args[1]

C7_Witness ==
    /\ op = "from_i32_nofail"
    /\ W = 16
    /\ args = <<Num(-32768)>>
    /\ res = Num(-32768)

\* C8: for x <= max_unsigned(), from_u16_nofail(x) is x; at widths 16 and 32
\* every u16 satisfies the guarantee, and at width 8 exactly the x above 255
\* violate it.
C8_FromU16Nofail ==
    op = "from_u16_nofail" =>
        LET x == args[1]
        IN  /\ NumLE(x, max_unsigned(W)) => res = x
            /\ W \in {16, 32} => NumLE(x, max_unsigned(W))
            /\ ~NumLE(x, max_unsigned(W)) <=> (W = 8 /\ NumLT(Num(255), x))

C8_Witness ==
    /\ op = "from_u16_nofail"
    /\ W = 32
    /\ args = <<Num(65535)>>
    /\ res = Num(65535)

\* C9: every operation yields a value of its result type on every input;
\* only from_i32 and from_i64 can yield None, and they yield None or Some
\* of a sample.
C9_Total ==
    /\ op \in {"max", "min", "zero", "one", "from_unsigned",
               "from_i32_nofail", "wrapping_add", "wrapping_sub"}
          => IsSigned(W, res)
    /\ op \in {"max_unsigned", "zero_unsigned", "one_unsigned",
               "from_u16_nofail"}
          => IsUnsigned(W, res)
    /\ op = "to_i32" => IsSigned(32, res)
    /\ op = "to_i64" => IsSigned(64, res)
    /\ op \in {"from_i32", "from_i64"} =>
          \/ res = None
          \/ /\ DOMAIN res = {"some", "val"}
             /\ res.some
             /\ IsSigned(W, res.val)

C9_Witness ==
    /\ op = "wrapping_sub"
    /\ W = 32
    /\ args = <<Num(I32MinInt), Num(1)>>
    /\ res = Num(I32MaxInt)

\* C10: outside the guarantee the unchecked conversions truncate: at widths
\* 8 and 16, for x outside [min(), max()], from_i32_nofail(x) is the sample
\* congruent to x modulo 2^W, to_i32 of it is not x, and from_i32(x) is
\* None; at width 8, for x above 255, from_u16_nofail(x) is x mod 256.
C10_Truncation ==
    /\ (op = "from_i32_nofail" /\ W \in {8, 16} /\ ~InRange(W, args[1])) =>
        /\ InRange(W, res)
        /\ Congruent(res, args[1], W)
        /\ to_i32(W, res) # args[1]
        /\ from_i32(W, args[1]) = None
    /\ (op = "from_u16_nofail" /\ W = 8 /\ NumLT(Num(255), args[1])) =>
        res = Num(args[1].l % 256)

C10_Witness ==
    /\ op = "from_i32_nofail"
    /\ W = 8
    /\ args = <<Num(128)>>
    /\ res = Num(-128)

=============================================================================
